---- MODULE Spec2Model ----
(***************************************************************************)
(* Model of the Snowflake procedure monitor: the SQLite event store        *)
(* (monitor_sessions, processed_queries, running_procedures), the session  *)
(* lifecycle, the throttle decision, the poll cycle of                     *)
(* process_completed_procedures and the retention sweep of                 *)
(* cleanup_old_records, as driven by MonitorManager.start_monitoring.      *)
(*                                                                         *)
(* Time is the local clock of datetime.now() in whole seconds.  The clock  *)
(* advances between steps by a minute, a day or a whole retention window;  *)
(* a timestamp written by the code is the clock value at the step that     *)
(* writes it.                                                              *)
(***************************************************************************)
EXTENDS Integers, Sequences, FiniteSets, TLC

\* ------------------------------------------------------------------ bounds
MaxSessions == 2        \* monitor processes started over the life of the store
MaxPoll == 2            \* rows in one poll result
MaxCycles == 2          \* polled iterations between two cleanup iterations
MaxMinuteTicks == 2     \* one-minute clock steps within a day
MaxDayTicks == 1        \* one-day clock steps within a retention window
MaxWeekTicks == 1       \* retention-window clock steps
MaxCount == 3           \* RUNNING notifications counted per event
MaxCadenceTicks == 4     \* one-minute clock steps of the cadence runs
MaxHalfHourTicks == 5    \* half-hour clock steps of the keep-alive runs
MaxSpawns == 3           \* monitor subprocesses spawned by the control shell
MaxShutdownNotices == 2  \* shutdown notifications counted per process

\* ------------------------------------------------------- program constants
SecondsPerMinute == 60          \* throttle_seconds = MINUTES * 60
RetentionDays == 7              \* cleanup_old_records(days = 7)
CleanupEvery == 100             \* if iteration % 100 == 0
SecondsPerDay == 24 * 60 * 60   \* timedelta(days = days)
RetentionSeconds == RetentionDays * SecondsPerDay

ConfiguredThrottle == {0 - 1, 0, 1, 2} \* RUNNING_PROCEDURE_THROTTLE_MINUTES in the environment
ConfiguredCheckInterval == {0 - 60, 0, 59, 60, 120} \* CHECK_INTERVAL in the environment
NoTime == 0 - 1                 \* SQL NULL in a TIMESTAMP column

QueryIds == {"Q1", "Q2"}
OneQuery == {"Q1"}
TerminalStatuses == {"SUCCESS", "FAILED"}
InProgressStatuses == {"RUNNING", "QUEUED"}
Statuses == TerminalStatuses \cup InProgressStatuses
ProcedureNames == {"LOAD_SALES", "UNKNOWN"}

Max(a, b) == IF a >= b THEN a ELSE b

\* _extract_procedure_name: the name is a function of the query text, which
\* is fixed for a query id.
ProcedureName(q) == IF q = "Q1" THEN "LOAD_SALES" ELSE "UNKNOWN"

\* Mutant: the configured value is used as it is.
Mut_ThrottleMinutesRaw(configured) == configured

\* config.py: max(1, int(os.getenv(...)))
ThrottleMinutes(configured) == Max(1, configured)

\* CHECK_INTERVAL = max(60, int(os.getenv('CHECK_INTERVAL', 60)))
CheckInterval(configured) == Max(60, configured)

\* One row of a poll result: procedure_info[0], procedure_info[2].
PollRows(ids) == [query_id : ids, status : Statuses]

NoEvent == [query_id |-> "", status |-> "", outcome |-> "NONE"]

\* No cleanup_old_records transaction is open.
NoTxn == [state |-> "none", step |-> 0, old_sessions |-> {}]

Min(a, b) == IF a <= b THEN a ELSE b

HeartbeatInterval == 60 * SecondsPerMinute  \* total_seconds() >= 3600
NoExit == 0 - 1                             \* the process has not called sys.exit

NoProcess == 0                              \* monitor_process = None
Threads == {"t1", "t2"}                     \* app.run(..., threaded=True)

\* A server thread that is handling no request.
IdleRequest == [pc |-> "idle", restart |-> FALSE]

\* No get_completed_procedures call in progress.
NoUpstream == [probe |-> "none", query |-> "none"]

\* What a statement on the upstream connection can do: every statement
\* succeeds, or a statement may raise.
Healthy == {"ok"}
Unreliable == {"ok", "failed"}

VARIABLES
  now,                  \* datetime.now()
  monitor_sessions,     \* table: [session_id, start_time, end_time, status]
  sqlite_sequence,      \* AUTOINCREMENT high-water mark of monitor_sessions
  processed_queries,    \* table: [query_id, session_id, processed_at]
  running_procedures,   \* table: [query_id, session_id, procedure_name,
                        \*         first_notified_at, last_notified_at, status]
  throttle_minutes,     \* RUNNING_PROCEDURE_THROTTLE_MINUTES
  pc,                   \* position of the monitor process
  session_id,           \* SnowflakeProcedureMonitor.session_id
  start_time,           \* SnowflakeProcedureMonitor.start_time
  running,              \* MonitorManager.running
  iteration,            \* start_monitoring's iteration, modulo CleanupEvery
  pending,              \* number of rows of the poll result not yet examined
  handled,              \* the row examined by the last loop step and its outcome
  delivered,            \* history: [query_id, status] notified successfully by
                        \* the current process
  last_sent,            \* history: per query id, when the current process last
                        \* delivered a RUNNING notification (NoTime: never)
  swept,                \* history: the session rows deleted by retention sweeps,
                        \* each with the number of its child rows deleted with it
  new_procedures_count, \* process_completed_procedures' new_procedures_count
  store_error,          \* the sqlite3.Error caught in the last loop step:
                        \* "none", "read" or "write"
  txn,                  \* the transaction of cleanup_old_records: its state,
                        \* the DELETE statements executed, the old session ids
  sent_count,           \* history: per query id, the number of RUNNING
                        \* notifications the current process delivered, up to
                        \* MaxCount
  last_heartbeat,       \* SnowflakeProcedureMonitor.last_heartbeat (NoTime: None)
  upstream,             \* history: what get_completed_procedures did in the
                        \* current iteration: the keep-alive probe and the query
  exit_status,          \* the status main() gave to sys.exit (NoExit: none yet)
  cycle_sent,           \* history: [query_id, status] delivered in the current
                        \* iteration
  monitor_process,      \* web_server.monitor_process (NoProcess: None)
  monitor_status,       \* web_server.monitor_status
  alive,                \* the monitor subprocesses spawned by the shell that
                        \* have not exited
  spawned,              \* the number of subprocess.Popen calls so far
  request,              \* per server thread, the handler it runs and its position
  shutdown_sent         \* history: the calls of send_monitor_shutdown_notification
                        \* by the current process, up to MaxShutdownNotices

vars == <<now, monitor_sessions, sqlite_sequence, processed_queries,
          running_procedures, throttle_minutes, pc, session_id, start_time,
          running, iteration, pending, handled, delivered, last_sent,
          swept, new_procedures_count, store_error, txn, sent_count,
          last_heartbeat, upstream, exit_status, cycle_sent,
          monitor_process, monitor_status, alive, spawned, request,
          shutdown_sent>>

store == <<monitor_sessions, processed_queries, running_procedures>>
proc == <<pc, session_id, start_time, running, iteration>>
hist == <<handled, delivered, last_sent, swept>>
env == <<sqlite_sequence, throttle_minutes>>
cycle == <<new_procedures_count, store_error, txn>>
conn == <<last_heartbeat, upstream>>
shell == <<monitor_process, monitor_status, alive, spawned, request>>
monitor == <<now, store, env, proc, pending, hist, cycle, sent_count, conn,
             exit_status, cycle_sent, shutdown_sent>>

\* ------------------------------------------------------------ event store

\* Mutant: the new id is one more than the largest id in the table (a
\* primary key without AUTOINCREMENT).
Mut_NextSessionIdMax(sessions, seq) ==
  IF sessions = {}
    THEN 1
    ELSE 1 + (CHOOSE m \in {s.session_id : s \in sessions} :
                \A s \in sessions : s.session_id <= m)

\* _create_session: INSERT INTO monitor_sessions ... 'ACTIVE'; lastrowid of an
\* INTEGER PRIMARY KEY AUTOINCREMENT column.
NextSessionId(sessions, seq) == seq + 1

SessionRow(sid, t) ==
  [session_id |-> sid, start_time |-> t, end_time |-> NoTime, status |-> "ACTIVE"]

\* _close_session: UPDATE ... SET end_time = ?, status = 'COMPLETED' WHERE session_id = ?
CloseSession(sessions, sid, t) ==
  {IF s.session_id = sid
     THEN [s EXCEPT !.end_time = t, !.status = "COMPLETED"]
     ELSE s : s \in sessions}

\* Mutant: the lookup ignores the session (global dedup).
Mut_IsQueryProcessedGlobal(pq, q, sid) ==
  \E r \in pq : r.query_id = q

\* _is_query_processed: SELECT 1 FROM processed_queries WHERE query_id = ? AND session_id = ?
IsQueryProcessed(pq, q, sid) ==
  \E r \in pq : r.query_id = q /\ r.session_id = sid

\* processed_at DEFAULT CURRENT_TIMESTAMP; the column is never read, and the
\* model keeps its date part (days since the clock's origin).
CurrentDate(t) == t \div SecondsPerDay

\* Mutant: the insert does not see the existing row of the key.
Mut_MarkQueryProcessedNoKey(pq, q, sid, t) ==
  pq \cup {[query_id |-> q, session_id |-> sid, processed_at |-> CurrentDate(t)]}

\* _mark_query_processed: INSERT OR IGNORE INTO processed_queries, with
\* PRIMARY KEY (query_id, session_id) and processed_at DEFAULT CURRENT_TIMESTAMP
MarkQueryProcessed(pq, q, sid, t) ==
  IF \E r \in pq : r.query_id = q /\ r.session_id = sid
    THEN pq
    ELSE pq \cup {[query_id |-> q, session_id |-> sid, processed_at |-> CurrentDate(t)]}

\* Mutant: the throttle row is looked up by query_id alone, in any session.
Mut_ThrottleRowsAnySession(rp, q, sid) ==
  {r \in rp : r.query_id = q}

ThrottleRows(rp, q, sid) ==
  {r \in rp : r.query_id = q /\ r.session_id = sid}

\* Mutant: the elapsed time is measured from first_notified_at.
Mut_ShouldNotifySinceFirst(rp, q, name, sid, t, minutes) ==
  LET result == ThrottleRows(rp, q, sid)
  IN IF result = {}
       THEN TRUE
       ELSE LET row == CHOOSE r \in result : TRUE
            IN t - row.first_notified_at >= minutes * SecondsPerMinute

\* _should_notify_running_procedure
ShouldNotifyRunningProcedure(rp, q, name, sid, t, minutes) ==
  LET result == ThrottleRows(rp, q, sid)
  IN IF result = {}
       THEN TRUE
       ELSE LET row == CHOOSE r \in result : TRUE
                time_since_last == t - row.last_notified_at
                throttle_seconds == minutes * SecondsPerMinute
            IN time_since_last >= throttle_seconds

\* Mutant: INSERT OR REPLACE, which resets first_notified_at.
Mut_MarkRunningReplace(rp, q, name, sid, t) ==
  (rp \ ThrottleRows(rp, q, sid))
    \cup {[query_id |-> q, session_id |-> sid, procedure_name |-> name,
           first_notified_at |-> t, last_notified_at |-> t, status |-> "RUNNING"]}

\* Mutant: the UPDATE writes the time in UTC, an hour behind the local time
\* the INSERT wrote.
Mut_MarkRunningUpdateUtc(rp, q, name, sid, t) ==
  LET existing == ThrottleRows(rp, q, sid)
  IN IF existing # {}
       THEN {IF r \in existing
               THEN [r EXCEPT !.last_notified_at = t - 60 * SecondsPerMinute,
                              !.status = "RUNNING"]
               ELSE r : r \in rp}
       ELSE rp \cup {[query_id |-> q, session_id |-> sid, procedure_name |-> name,
                      first_notified_at |-> t, last_notified_at |-> t,
                      status |-> "RUNNING"]}

\* _mark_running_procedure_notified
MarkRunningProcedureNotified(rp, q, name, sid, t) ==
  LET existing == ThrottleRows(rp, q, sid)
  IN IF existing # {}
       THEN {IF r \in existing
               THEN [r EXCEPT !.last_notified_at = t, !.status = "RUNNING"]
               ELSE r : r \in rp}
       ELSE rp \cup {[query_id |-> q, session_id |-> sid, procedure_name |-> name,
                      first_notified_at |-> t, last_notified_at |-> t,
                      status |-> "RUNNING"]}

\* Mutant: the cutoff comparison includes the boundary.
Mut_OldSessionsInclusive(sessions, t, days) ==
  LET cutoff_date == t - days * SecondsPerDay
  IN {s.session_id : s \in {x \in sessions : x.start_time <= cutoff_date}}

\* cleanup_old_records: SELECT session_id FROM monitor_sessions WHERE start_time < ?
OldSessions(sessions, t, days) ==
  LET cutoff_date == t - days * SecondsPerDay
  IN {s.session_id : s \in {x \in sessions : x.start_time < cutoff_date}}

\* cleanup_old_records: the three DELETE ... WHERE session_id IN (old_sessions)
DeleteSessions(sessions, old) == {s \in sessions : s.session_id \notin old}
DeleteProcessed(pq, old) == {r \in pq : r.session_id \notin old}
DeleteRunning(rp, old) == {r \in rp : r.session_id \notin old}

\* Mutant: every DELETE is committed on its own (autocommit).
Mut_AutoCommit(persisted, working) == working

\* cleanup_old_records: a DELETE executed inside the transaction that the
\* connection opens before it; the persisted table changes at conn.commit().
AfterDelete(persisted, working) == persisted

\* process_completed_procedures: if status == 'RUNNING'
IsRunningStatus(status) == status = "RUNNING"

\* process_completed_procedures: if success: self._mark_running_procedure_notified(...)
RunningAfterDelivery(rp, q, name, sid, t, success) ==
  IF success THEN MarkRunningProcedureNotified(rp, q, name, sid, t) ELSE rp

\* Mutant: the processed row is written whatever delivery returned.
Mut_ProcessedAlways(pq, q, sid, t, success) == MarkQueryProcessed(pq, q, sid, t)

\* Mutant: the processed row is written when delivery failed.
Mut_ProcessedOnFailure(pq, q, sid, t, success) ==
  IF success THEN pq ELSE MarkQueryProcessed(pq, q, sid, t)

\* Mutant: the INSERT is not committed before the connection is closed.
Mut_ProcessedUncommitted(pq, q, sid, t, success) == pq

\* process_completed_procedures: if success: self._mark_query_processed(query_id)
ProcessedAfterDelivery(pq, q, sid, t, success) ==
  IF success THEN MarkQueryProcessed(pq, q, sid, t) ELSE pq

Outcome(success) == IF success THEN "SENT" ELSE "FAILED"

\* process_completed_procedures: if success: ...; new_procedures_count += 1
CountAfterDelivery(count, success) == IF success THEN count + 1 ELSE count

\* -------------------------------------------------------------- upstream

\* Mutant: no quiet first hour; the first probe goes out with the first poll.
Mut_HeartbeatDueFromStart(t, start, last) ==
  last = NoTime \/ t - last >= HeartbeatInterval

\* _check_and_send_heartbeat: nothing in the first hour after start_time; then
\* a probe when none has succeeded yet or the last success is an hour old.
HeartbeatDue(t, start, last) ==
  /\ ~(t - start < HeartbeatInterval)
  /\ (last = NoTime \/ t - last >= HeartbeatInterval)

\* _snowflake_heartbeat: SELECT 1 succeeds, or raises and returns False;
\* results are the outcomes the upstream connection can produce.
ProbeOutcomes(due, results) == IF due THEN results ELSE {"none"}

\* _snowflake_heartbeat: self.last_heartbeat = datetime.now() on success only.
LastHeartbeatAfter(last, t, probe) == IF probe = "ok" THEN t ELSE last

\* Mutant: the exception of a failed probe is not caught in
\* _snowflake_heartbeat and takes get_completed_procedures to its except
\* branch before the query is executed.
Mut_QueryOutcomesProbeRaises(probe, results) ==
  IF probe = "failed" THEN {"skipped"} ELSE results

\* get_completed_procedures: the value of _check_and_send_heartbeat is dropped
\* and the query is executed; it returns rows or raises.
QueryOutcomes(probe, results) == results

\* Mutant: the rows fetched before the error are returned.
Mut_PollSizesPartial(query) == 0..MaxPoll

\* get_completed_procedures: the fetched rows, or [] from the except branch.
PollSizes(query) == IF query = "ok" THEN 0..MaxPoll ELSE {0}

\* ---------------------------------------------------------------- actions

Init ==
  /\ now = 0
  /\ \E c \in ConfiguredThrottle : throttle_minutes = ThrottleMinutes(c)
  /\ monitor_sessions = {SessionRow(1, 0)}
  /\ sqlite_sequence = 1
  /\ processed_queries = {}
  /\ running_procedures = {}
  /\ pc = "constructed"
  /\ session_id = 1
  /\ start_time = 0
  /\ running = TRUE
  /\ iteration = 0
  /\ pending = 0
  /\ handled = NoEvent
  /\ delivered = {}
  /\ last_sent = [q \in QueryIds |-> NoTime]
  /\ swept = {}
  /\ new_procedures_count = 0
  /\ store_error = "none"
  /\ txn = NoTxn
  /\ sent_count = [q \in QueryIds |-> 0]
  /\ last_heartbeat = NoTime
  /\ upstream = NoUpstream
  /\ exit_status = NoExit
  /\ cycle_sent = {}
  /\ monitor_process = NoProcess
  /\ monitor_status = "stopped"
  /\ alive = {}
  /\ spawned = 0
  /\ request = [t \in Threads |-> IdleRequest]
  /\ shutdown_sent = 0

\* The local clock advances by one minute.
TickMinute ==
  /\ (now % SecondsPerDay) < MaxMinuteTicks * SecondsPerMinute
  /\ now' = now + SecondsPerMinute
  /\ UNCHANGED <<store, env, proc, pending, hist, cycle, sent_count>>
  /\ UNCHANGED <<conn, exit_status, cycle_sent>>
  /\ UNCHANGED shell
  /\ UNCHANGED shutdown_sent

\* The local clock advances by one minute, over a longer run.
TickCadence ==
  /\ now < MaxCadenceTicks * SecondsPerMinute
  /\ now' = now + SecondsPerMinute
  /\ UNCHANGED <<store, env, proc, pending, hist, cycle, sent_count>>
  /\ UNCHANGED <<conn, exit_status, cycle_sent>>
  /\ UNCHANGED shell
  /\ UNCHANGED shutdown_sent

\* The local clock advances by half an hour.
TickHalfHour ==
  /\ now < MaxHalfHourTicks * 30 * SecondsPerMinute
  /\ now' = now + 30 * SecondsPerMinute
  /\ UNCHANGED <<store, env, proc, pending, hist, cycle, sent_count>>
  /\ UNCHANGED <<conn, exit_status, cycle_sent>>
  /\ UNCHANGED shell
  /\ UNCHANGED shutdown_sent

\* The local clock advances by one day.
TickDay ==
  /\ ((now % RetentionSeconds) \div SecondsPerDay) < MaxDayTicks
  /\ now' = now + SecondsPerDay
  /\ UNCHANGED <<store, env, proc, pending, hist, cycle, sent_count>>
  /\ UNCHANGED <<conn, exit_status, cycle_sent>>
  /\ UNCHANGED shell
  /\ UNCHANGED shutdown_sent

\* The local clock advances by a whole retention window.
TickWeek ==
  /\ (now \div RetentionSeconds) < MaxWeekTicks
  /\ now' = now + RetentionSeconds
  /\ UNCHANGED <<store, env, proc, pending, hist, cycle, sent_count>>
  /\ UNCHANGED <<conn, exit_status, cycle_sent>>
  /\ UNCHANGED shell
  /\ UNCHANGED shutdown_sent

\* MonitorManager.__init__ of a new process: SnowflakeProcedureMonitor.__init__
\* sets start_time, initialises the database and creates the session.
Construct ==
  /\ pc = "off"
  /\ sqlite_sequence < MaxSessions
  /\ LET sid == NextSessionId(monitor_sessions, sqlite_sequence)
     IN /\ monitor_sessions' = monitor_sessions \cup {SessionRow(sid, now)}
        /\ sqlite_sequence' = Max(sqlite_sequence, sid)
        /\ session_id' = sid
  /\ start_time' = now
  /\ running' = TRUE
  /\ iteration' = 0
  /\ pc' = "constructed"
  /\ pending' = 0
  /\ handled' = NoEvent
  /\ delivered' = {}
  /\ last_sent' = [q \in QueryIds |-> NoTime]
  /\ new_procedures_count' = 0
  /\ store_error' = "none"
  /\ txn' = NoTxn
  /\ sent_count' = [q \in QueryIds |-> 0]
  /\ UNCHANGED <<now, processed_queries, running_procedures, throttle_minutes, swept>>
  /\ last_heartbeat' = NoTime
  /\ upstream' = NoUpstream
  /\ exit_status' = NoExit
  /\ cycle_sent' = {}
  /\ UNCHANGED shell
  /\ shutdown_sent' = 0

\* Mutant: the result of the startup checks is logged and the loop is entered
\* all the same.
Mut_StartupFailsIgnored ==
  /\ pc = "constructed"
  /\ pc' = "loop"
  /\ exit_status' = 1
  /\ UNCHANGED <<now, store, env, session_id, start_time, running, iteration,
                 pending, hist, cycle, sent_count, conn, cycle_sent>>
  /\ UNCHANGED shell
  /\ UNCHANGED shutdown_sent

\* start_monitoring: the connection test or the startup notification fails;
\* it returns False before the loop (and before the try/finally).
StartupFails ==
  /\ pc = "constructed"
  /\ pc' = "off"
  /\ UNCHANGED <<now, store, env, session_id, start_time, running, iteration,
                 pending, hist, cycle, sent_count>>
  /\ exit_status' = 1
  /\ UNCHANGED <<conn, cycle_sent>>
  /\ UNCHANGED shell
  /\ UNCHANGED shutdown_sent

\* start_monitoring: both startup checks pass; iteration = 0.
StartupOk ==
  /\ pc = "constructed"
  /\ pc' = "loop"
  /\ iteration' = 0
  /\ UNCHANGED <<now, store, env, session_id, start_time, running, pending, hist,
                 cycle, sent_count>>
  /\ UNCHANGED <<conn, exit_status, cycle_sent>>
  /\ UNCHANGED shell
  /\ UNCHANGED shutdown_sent

\* Mutant: the handler ends the process at once (the default disposition of
\* SIGTERM, with the session closed on the way out).
Mut_SignalExits ==
  /\ pc # "off"
  /\ running
  /\ running' = FALSE
  /\ pc' = "off"
  /\ monitor_sessions' = CloseSession(monitor_sessions, session_id, now)
  /\ exit_status' = 0
  /\ UNCHANGED <<now, processed_queries, running_procedures, env, session_id,
                 start_time, iteration, pending, hist, cycle, sent_count, conn,
                 cycle_sent>>
  /\ UNCHANGED shell
  /\ shutdown_sent' = Min(shutdown_sent + 1, MaxShutdownNotices)

\* _signal_handler: SIGINT or SIGTERM delivered to the process; it clears
\* the flag and sends the shutdown notification.
Signal ==
  /\ pc # "off"
  /\ running
  /\ running' = FALSE
  /\ UNCHANGED <<now, store, env, pc, session_id, start_time, iteration,
                 pending, hist, cycle, sent_count>>
  /\ UNCHANGED <<conn, exit_status, cycle_sent>>
  /\ UNCHANGED shell
  /\ shutdown_sent' = Min(shutdown_sent + 1, MaxShutdownNotices)

\* while self.running: iteration += 1; get_completed_procedures() sends the
\* keep-alive probe when one is due, executes the query and returns a result
\* of 0..MaxPoll rows, or [] when the query raises.
BeginIteration(results) ==
  /\ pc = "loop"
  /\ running
  /\ iteration < MaxCycles \/ iteration = CleanupEvery - 1
  /\ iteration' = (iteration + 1) % CleanupEvery
  /\ \E probe \in ProbeOutcomes(HeartbeatDue(now, start_time, last_heartbeat), results) :
       \E query \in QueryOutcomes(probe, results) :
         /\ last_heartbeat' = LastHeartbeatAfter(last_heartbeat, now, probe)
         /\ upstream' = [probe |-> probe, query |-> query]
         /\ \E n \in PollSizes(query) : pending' = n
  /\ handled' = NoEvent
  /\ pc' = "cycle"
  /\ new_procedures_count' = 0
  /\ store_error' = "none"
  /\ txn' = NoTxn
  /\ cycle_sent' = {}
  /\ UNCHANGED <<now, store, env, session_id, start_time, running, delivered,
                 last_sent, swept, sent_count, exit_status>>
  /\ UNCHANGED shell
  /\ UNCHANGED shutdown_sent

\* The iterations up to the one before the next cleanup iteration, each with
\* an empty poll result: the iteration counter moves, and a keep-alive probe
\* that is due is sent and succeeds in one of them or in none.
IdleIterations(results) ==
  /\ pc = "loop"
  /\ running
  /\ iteration < CleanupEvery - 1
  /\ iteration' = CleanupEvery - 1
  /\ UNCHANGED <<now, store, env, pc, session_id, start_time, running, pending,
                 hist, cycle, sent_count>>
  /\ \E probe \in ProbeOutcomes(HeartbeatDue(now, start_time, last_heartbeat), results) :
       last_heartbeat' = LastHeartbeatAfter(last_heartbeat, now, probe)
  /\ UNCHANGED <<upstream, exit_status, cycle_sent>>
  /\ UNCHANGED shell
  /\ UNCHANGED shutdown_sent

\* Mutant: a throttled row refreshes last_notified_at.
Mut_HandleRunningThrottledTouches(ids) ==
  /\ pc = "cycle"
  /\ pending > 0
  /\ \E row \in PollRows(ids) :
       /\ IsRunningStatus(row.status)
       /\ ~ShouldNotifyRunningProcedure(running_procedures, row.query_id,
              ProcedureName(row.query_id), session_id, now, throttle_minutes)
       /\ running_procedures' =
            MarkRunningProcedureNotified(running_procedures, row.query_id,
              ProcedureName(row.query_id), session_id, now)
       /\ handled' = [query_id |-> row.query_id, status |-> row.status, outcome |-> "SKIP"]
  /\ pending' = pending - 1
  /\ store_error' = "none"
  /\ UNCHANGED <<now, monitor_sessions, processed_queries, env, proc, delivered,
                 last_sent, swept, new_procedures_count, txn, sent_count, conn,
                 exit_status, cycle_sent>>
  /\ UNCHANGED shell
  /\ UNCHANGED shutdown_sent

\* for procedure_info in completed_procedures: a RUNNING row, throttled.
HandleRunningThrottled(ids) ==
  /\ pc = "cycle"
  /\ pending > 0
  /\ \E row \in PollRows(ids) :
       /\ IsRunningStatus(row.status)
       /\ ~ShouldNotifyRunningProcedure(running_procedures, row.query_id,
              ProcedureName(row.query_id), session_id, now, throttle_minutes)
       /\ handled' = [query_id |-> row.query_id, status |-> row.status, outcome |-> "SKIP"]
  /\ pending' = pending - 1
  /\ store_error' = "none"
  /\ UNCHANGED <<now, store, env, proc, delivered, last_sent, swept,
                 new_procedures_count, txn, sent_count>>
  /\ UNCHANGED <<conn, exit_status, cycle_sent>>
  /\ UNCHANGED shell
  /\ UNCHANGED shutdown_sent

\* A RUNNING row that passes the throttle check: delivery, then the throttle
\* row is written on success.
HandleRunningNotify(ids) ==
  /\ pc = "cycle"
  /\ pending > 0
  /\ \E row \in PollRows(ids), success \in BOOLEAN :
       /\ IsRunningStatus(row.status)
       /\ ShouldNotifyRunningProcedure(running_procedures, row.query_id,
             ProcedureName(row.query_id), session_id, now, throttle_minutes)
       /\ running_procedures' =
            RunningAfterDelivery(running_procedures, row.query_id,
              ProcedureName(row.query_id), session_id, now, success)
       /\ handled' = [query_id |-> row.query_id, status |-> row.status,
                      outcome |-> Outcome(success)]
       /\ delivered' = IF success
                         THEN delivered \cup {[query_id |-> row.query_id, status |-> row.status]}
                         ELSE delivered
       /\ cycle_sent' = IF success
                          THEN cycle_sent \cup {[query_id |-> row.query_id, status |-> row.status]}
                          ELSE cycle_sent
       /\ last_sent' = IF success
                         THEN [last_sent EXCEPT ![row.query_id] = now]
                         ELSE last_sent
       /\ sent_count' = IF success
                          THEN [sent_count EXCEPT ![row.query_id] = Min(@ + 1, MaxCount)]
                          ELSE sent_count
       /\ new_procedures_count' = CountAfterDelivery(new_procedures_count, success)
  /\ pending' = pending - 1
  /\ store_error' = "none"
  /\ UNCHANGED <<now, monitor_sessions, processed_queries, env, proc, swept, txn>>
  /\ UNCHANGED <<conn, exit_status>>
  /\ UNCHANGED shell
  /\ UNCHANGED shutdown_sent

\* A row of any other status that is already processed in this session.
HandleProcessedSkip(ids) ==
  /\ pc = "cycle"
  /\ pending > 0
  /\ \E row \in PollRows(ids) :
       /\ ~IsRunningStatus(row.status)
       /\ IsQueryProcessed(processed_queries, row.query_id, session_id)
       /\ handled' = [query_id |-> row.query_id, status |-> row.status, outcome |-> "SKIP"]
  /\ pending' = pending - 1
  /\ store_error' = "none"
  /\ UNCHANGED <<now, store, env, proc, delivered, last_sent, swept,
                 new_procedures_count, txn, sent_count>>
  /\ UNCHANGED <<conn, exit_status, cycle_sent>>
  /\ UNCHANGED shell
  /\ UNCHANGED shutdown_sent

\* Mutant: a delivered terminal notification also clears the event's throttle
\* row.
Mut_HandleNewClearsThrottle(ids) ==
  /\ pc = "cycle"
  /\ pending > 0
  /\ \E row \in PollRows(ids), success \in BOOLEAN :
       /\ ~IsRunningStatus(row.status)
       /\ ~IsQueryProcessed(processed_queries, row.query_id, session_id)
       /\ processed_queries' =
            ProcessedAfterDelivery(processed_queries, row.query_id, session_id, now, success)
       /\ running_procedures' =
            IF success
              THEN running_procedures \ ThrottleRows(running_procedures, row.query_id, session_id)
              ELSE running_procedures
       /\ handled' = [query_id |-> row.query_id, status |-> row.status,
                      outcome |-> Outcome(success)]
       /\ delivered' = IF success
                         THEN delivered \cup {[query_id |-> row.query_id, status |-> row.status]}
                         ELSE delivered
       /\ cycle_sent' = IF success
                          THEN cycle_sent \cup {[query_id |-> row.query_id, status |-> row.status]}
                          ELSE cycle_sent
       /\ new_procedures_count' = CountAfterDelivery(new_procedures_count, success)
  /\ pending' = pending - 1
  /\ store_error' = "none"
  /\ UNCHANGED <<now, monitor_sessions, env, proc, last_sent, swept, txn,
                 sent_count, conn, exit_status>>
  /\ UNCHANGED shell
  /\ UNCHANGED shutdown_sent

\* Mutant: a failed delivery ends the for loop (break instead of the log line).
Mut_HandleNewBreaksOnFailure(ids) ==
  /\ pc = "cycle"
  /\ pending > 0
  /\ \E row \in PollRows(ids), success \in BOOLEAN :
       /\ ~IsRunningStatus(row.status)
       /\ ~IsQueryProcessed(processed_queries, row.query_id, session_id)
       /\ processed_queries' =
            ProcessedAfterDelivery(processed_queries, row.query_id, session_id, now, success)
       /\ handled' = [query_id |-> row.query_id, status |-> row.status,
                      outcome |-> Outcome(success)]
       /\ delivered' = IF success
                         THEN delivered \cup {[query_id |-> row.query_id, status |-> row.status]}
                         ELSE delivered
       /\ cycle_sent' = IF success
                          THEN cycle_sent \cup {[query_id |-> row.query_id, status |-> row.status]}
                          ELSE cycle_sent
       /\ new_procedures_count' = CountAfterDelivery(new_procedures_count, success)
       /\ pending' = IF success THEN pending - 1 ELSE 0
  /\ store_error' = "none"
  /\ UNCHANGED <<now, monitor_sessions, running_procedures, env, proc, last_sent,
                 swept, txn, sent_count, conn, exit_status, shell>>
  /\ UNCHANGED shutdown_sent

\* A row of any other status not yet processed: delivery, then the processed
\* row is written on success.
HandleNew(ids) ==
  /\ pc = "cycle"
  /\ pending > 0
  /\ \E row \in PollRows(ids), success \in BOOLEAN :
       /\ ~IsRunningStatus(row.status)
       /\ ~IsQueryProcessed(processed_queries, row.query_id, session_id)
       /\ processed_queries' =
            ProcessedAfterDelivery(processed_queries, row.query_id, session_id, now, success)
       /\ handled' = [query_id |-> row.query_id, status |-> row.status,
                      outcome |-> Outcome(success)]
       /\ delivered' = IF success
                         THEN delivered \cup {[query_id |-> row.query_id, status |-> row.status]}
                         ELSE delivered
       /\ cycle_sent' = IF success
                          THEN cycle_sent \cup {[query_id |-> row.query_id, status |-> row.status]}
                          ELSE cycle_sent
       /\ new_procedures_count' = CountAfterDelivery(new_procedures_count, success)
  /\ pending' = pending - 1
  /\ store_error' = "none"
  /\ UNCHANGED <<now, monitor_sessions, running_procedures, env, proc, last_sent,
                 swept, txn, sent_count>>
  /\ UNCHANGED <<conn, exit_status>>
  /\ UNCHANGED shell
  /\ UNCHANGED shutdown_sent

\* End of an iteration that is no multiple of 100: back to the loop test.
EndIteration ==
  /\ pc = "cycle"
  /\ pending = 0
  /\ iteration # 0
  /\ pc' = "loop"
  /\ handled' = NoEvent
  /\ new_procedures_count' = 0
  /\ store_error' = "none"
  /\ UNCHANGED <<now, store, env, session_id, start_time, running, iteration,
                 pending, delivered, last_sent, swept, txn, sent_count>>
  /\ upstream' = NoUpstream
  /\ cycle_sent' = {}
  /\ UNCHANGED <<last_heartbeat, exit_status>>
  /\ UNCHANGED shell
  /\ UNCHANGED shutdown_sent

\* End of an iteration with iteration % 100 == 0: cleanup_old_records().
EndIterationCleanup ==
  /\ pc = "cycle"
  /\ pending = 0
  /\ iteration = 0
  /\ LET old_sessions == OldSessions(monitor_sessions, now, RetentionDays)
     IN /\ processed_queries' = DeleteProcessed(processed_queries, old_sessions)
        /\ running_procedures' = DeleteRunning(running_procedures, old_sessions)
        /\ monitor_sessions' = DeleteSessions(monitor_sessions, old_sessions)
        /\ swept' = swept \cup
             {[session |-> s,
               processed |-> Cardinality({r \in processed_queries : r.session_id = s.session_id}),
               throttled |-> Cardinality({r \in running_procedures : r.session_id = s.session_id})]
                : s \in {x \in monitor_sessions : x.session_id \in old_sessions}}
  /\ pc' = "loop"
  /\ handled' = NoEvent
  /\ new_procedures_count' = 0
  /\ store_error' = "none"
  /\ UNCHANGED <<now, env, session_id, start_time, running, iteration,
                 pending, delivered, last_sent, txn, sent_count>>
  /\ upstream' = NoUpstream
  /\ cycle_sent' = {}
  /\ UNCHANGED <<last_heartbeat, exit_status>>
  /\ UNCHANGED shell
  /\ UNCHANGED shutdown_sent

\* The loop ends (self.running is False): finally: _cleanup() ->
\* disconnect_from_snowflake() -> _close_session().
Cleanup ==
  /\ pc = "loop"
  /\ ~running
  /\ monitor_sessions' = CloseSession(monitor_sessions, session_id, now)
  /\ pc' = "off"
  /\ UNCHANGED <<now, processed_queries, running_procedures, env, session_id,
                 start_time, running, iteration, pending, hist, cycle, sent_count>>
  /\ exit_status' = 0
  /\ UNCHANGED <<conn, cycle_sent>>
  /\ UNCHANGED shell
  /\ UNCHANGED shutdown_sent

\* A RUNNING row whose throttle lookup raises sqlite3.Error:
\* _should_notify_running_procedure returns False.
HandleRunningReadError(ids) ==
  /\ pc = "cycle"
  /\ pending > 0
  /\ \E row \in PollRows(ids) :
       /\ IsRunningStatus(row.status)
       /\ handled' = [query_id |-> row.query_id, status |-> row.status, outcome |-> "SKIP"]
  /\ pending' = pending - 1
  /\ store_error' = "read"
  /\ UNCHANGED <<now, store, env, proc, delivered, last_sent, swept,
                 new_procedures_count, txn, sent_count>>
  /\ UNCHANGED <<conn, exit_status, cycle_sent>>
  /\ UNCHANGED shell
  /\ UNCHANGED shutdown_sent

\* A RUNNING row that passes the throttle check and is delivered, and whose
\* _mark_running_procedure_notified raises sqlite3.Error: nothing is stored.
HandleRunningWriteError(ids) ==
  /\ pc = "cycle"
  /\ pending > 0
  /\ \E row \in PollRows(ids) :
       /\ IsRunningStatus(row.status)
       /\ ShouldNotifyRunningProcedure(running_procedures, row.query_id,
             ProcedureName(row.query_id), session_id, now, throttle_minutes)
       /\ handled' = [query_id |-> row.query_id, status |-> row.status,
                      outcome |-> Outcome(TRUE)]
       /\ delivered' = delivered \cup {[query_id |-> row.query_id, status |-> row.status]}
       /\ cycle_sent' = cycle_sent \cup {[query_id |-> row.query_id, status |-> row.status]}
       /\ last_sent' = [last_sent EXCEPT ![row.query_id] = now]
       /\ sent_count' = [sent_count EXCEPT ![row.query_id] = Min(@ + 1, MaxCount)]
  /\ new_procedures_count' = CountAfterDelivery(new_procedures_count, TRUE)
  /\ pending' = pending - 1
  /\ store_error' = "write"
  /\ UNCHANGED <<now, store, env, proc, swept, txn>>
  /\ UNCHANGED <<conn, exit_status>>
  /\ UNCHANGED shell
  /\ UNCHANGED shutdown_sent

\* A row of any other status whose _is_query_processed raises sqlite3.Error
\* and returns False: delivery, then the processed row is written on success.
HandleProcessedReadError(ids) ==
  /\ pc = "cycle"
  /\ pending > 0
  /\ \E row \in PollRows(ids), success \in BOOLEAN :
       /\ ~IsRunningStatus(row.status)
       /\ processed_queries' =
            ProcessedAfterDelivery(processed_queries, row.query_id, session_id, now, success)
       /\ handled' = [query_id |-> row.query_id, status |-> row.status,
                      outcome |-> Outcome(success)]
       /\ delivered' = IF success
                         THEN delivered \cup {[query_id |-> row.query_id, status |-> row.status]}
                         ELSE delivered
       /\ cycle_sent' = IF success
                          THEN cycle_sent \cup {[query_id |-> row.query_id, status |-> row.status]}
                          ELSE cycle_sent
       /\ new_procedures_count' = CountAfterDelivery(new_procedures_count, success)
  /\ pending' = pending - 1
  /\ store_error' = "read"
  /\ UNCHANGED <<now, monitor_sessions, running_procedures, env, proc, last_sent,
                 swept, txn, sent_count>>
  /\ UNCHANGED <<conn, exit_status>>
  /\ UNCHANGED shell
  /\ UNCHANGED shutdown_sent

\* A row of any other status, not yet processed, that is delivered and whose
\* _mark_query_processed raises sqlite3.Error: nothing is stored.
HandleNewWriteError(ids) ==
  /\ pc = "cycle"
  /\ pending > 0
  /\ \E row \in PollRows(ids) :
       /\ ~IsRunningStatus(row.status)
       /\ ~IsQueryProcessed(processed_queries, row.query_id, session_id)
       /\ handled' = [query_id |-> row.query_id, status |-> row.status,
                      outcome |-> Outcome(TRUE)]
       /\ delivered' = delivered \cup {[query_id |-> row.query_id, status |-> row.status]}
       /\ cycle_sent' = cycle_sent \cup {[query_id |-> row.query_id, status |-> row.status]}
  /\ new_procedures_count' = CountAfterDelivery(new_procedures_count, TRUE)
  /\ pending' = pending - 1
  /\ store_error' = "write"
  /\ UNCHANGED <<now, store, env, proc, last_sent, swept, txn, sent_count>>
  /\ UNCHANGED <<conn, exit_status>>
  /\ UNCHANGED shell
  /\ UNCHANGED shutdown_sent

\* cleanup_old_records, statement by statement.  The SELECT of the old
\* session ids; with none, the connection is closed and the iteration ends.
SweepBegin ==
  /\ pc = "cycle"
  /\ pending = 0
  /\ iteration = 0
  /\ LET old_sessions == OldSessions(monitor_sessions, now, RetentionDays)
     IN IF old_sessions = {}
          THEN /\ pc' = "loop"
               /\ txn' = NoTxn
          ELSE /\ pc' = "sweep"
               /\ txn' = [state |-> "open", step |-> 0, old_sessions |-> old_sessions]
  /\ handled' = NoEvent
  /\ new_procedures_count' = 0
  /\ store_error' = "none"
  /\ UNCHANGED <<now, store, env, session_id, start_time, running, iteration,
                 pending, delivered, last_sent, swept, sent_count>>
  /\ upstream' = NoUpstream
  /\ cycle_sent' = {}
  /\ UNCHANGED <<last_heartbeat, exit_status>>
  /\ UNCHANGED shell
  /\ UNCHANGED shutdown_sent

\* DELETE FROM processed_queries WHERE session_id IN (old_sessions)
SweepDeleteProcessed ==
  /\ pc = "sweep"
  /\ txn.step = 0
  /\ processed_queries' =
       AfterDelete(processed_queries, DeleteProcessed(processed_queries, txn.old_sessions))
  /\ txn' = [txn EXCEPT !.step = 1]
  /\ UNCHANGED <<now, monitor_sessions, running_procedures, env, proc, pending,
                 hist, new_procedures_count, store_error, sent_count>>
  /\ UNCHANGED <<conn, exit_status, cycle_sent>>
  /\ UNCHANGED shell
  /\ UNCHANGED shutdown_sent

\* DELETE FROM running_procedures WHERE session_id IN (old_sessions)
SweepDeleteRunning ==
  /\ pc = "sweep"
  /\ txn.step = 1
  /\ running_procedures' =
       AfterDelete(running_procedures, DeleteRunning(running_procedures, txn.old_sessions))
  /\ txn' = [txn EXCEPT !.step = 2]
  /\ UNCHANGED <<now, monitor_sessions, processed_queries, env, proc, pending,
                 hist, new_procedures_count, store_error, sent_count>>
  /\ UNCHANGED <<conn, exit_status, cycle_sent>>
  /\ UNCHANGED shell
  /\ UNCHANGED shutdown_sent

\* DELETE FROM monitor_sessions WHERE session_id IN (old_sessions)
SweepDeleteSessions ==
  /\ pc = "sweep"
  /\ txn.step = 2
  /\ monitor_sessions' =
       AfterDelete(monitor_sessions, DeleteSessions(monitor_sessions, txn.old_sessions))
  /\ txn' = [txn EXCEPT !.step = 3]
  /\ UNCHANGED <<now, processed_queries, running_procedures, env, proc, pending,
                 hist, new_procedures_count, store_error, sent_count>>
  /\ UNCHANGED <<conn, exit_status, cycle_sent>>
  /\ UNCHANGED shell
  /\ UNCHANGED shutdown_sent

\* conn.commit(): the three deletions are persisted together.
SweepCommit ==
  /\ pc = "sweep"
  /\ txn.step = 3
  /\ processed_queries' = DeleteProcessed(processed_queries, txn.old_sessions)
  /\ running_procedures' = DeleteRunning(running_procedures, txn.old_sessions)
  /\ monitor_sessions' = DeleteSessions(monitor_sessions, txn.old_sessions)
  /\ swept' = swept \cup
       {[session |-> s,
         processed |-> Cardinality({r \in processed_queries : r.session_id = s.session_id}),
         throttled |-> Cardinality({r \in running_procedures : r.session_id = s.session_id})]
          : s \in {x \in monitor_sessions : x.session_id \in txn.old_sessions}}
  /\ txn' = [txn EXCEPT !.state = "committed"]
  /\ pc' = "loop"
  /\ UNCHANGED <<now, env, session_id, start_time, running, iteration, pending,
                 handled, delivered, last_sent, new_procedures_count, store_error,
                 sent_count>>
  /\ UNCHANGED <<conn, exit_status, cycle_sent>>
  /\ UNCHANGED shell
  /\ UNCHANGED shutdown_sent

\* Mutant: the sqlite3.Error is not caught in cleanup_old_records and ends
\* the process.
Mut_SweepErrorFatal ==
  /\ pc = "sweep"
  /\ txn' = [txn EXCEPT !.state = "rolled_back"]
  /\ pc' = "off"
  /\ store_error' = "write"
  /\ exit_status' = 1
  /\ UNCHANGED <<now, store, env, session_id, start_time, running, iteration,
                 pending, hist, new_procedures_count, sent_count, conn,
                 cycle_sent>>
  /\ UNCHANGED shell
  /\ UNCHANGED shutdown_sent

\* A statement of the transaction raises sqlite3.Error: the error is logged,
\* the connection is dropped without commit and the transaction rolls back.
SweepError ==
  /\ pc = "sweep"
  /\ txn' = [txn EXCEPT !.state = "rolled_back"]
  /\ pc' = "loop"
  /\ store_error' = "write"
  /\ UNCHANGED <<now, store, env, session_id, start_time, running, iteration,
                 pending, hist, new_procedures_count, sent_count>>
  /\ UNCHANGED <<conn, exit_status, cycle_sent>>
  /\ UNCHANGED shell
  /\ UNCHANGED shutdown_sent

\* The process is killed inside the transaction: the store rolls the
\* uncommitted transaction back; the session is left as it was.
SweepCrash ==
  /\ pc = "sweep"
  /\ txn' = [txn EXCEPT !.state = "rolled_back"]
  /\ pc' = "off"
  /\ UNCHANGED <<now, store, env, session_id, start_time, running, iteration,
                 pending, hist, new_procedures_count, store_error, sent_count>>
  /\ UNCHANGED <<conn, exit_status, cycle_sent>>
  /\ UNCHANGED shell
  /\ UNCHANGED shutdown_sent

\* ------------------------------------------------------------ control shell

\* What a thread does when stop_monitor returns: restart_monitor goes on to
\* start_monitor, a stop request is done.
AfterStop(r) ==
  IF r.restart THEN [pc |-> "start", restart |-> FALSE] ELSE IdleRequest

\* POST /api/start is dispatched to a server thread.
StartRequest(t) ==
  /\ request[t].pc = "idle"
  /\ request' = [request EXCEPT ![t] = [pc |-> "start", restart |-> FALSE]]
  /\ UNCHANGED <<monitor, monitor_process, monitor_status, alive, spawned>>

\* POST /api/stop is dispatched to a server thread.
StopRequest(t) ==
  /\ request[t].pc = "idle"
  /\ request' = [request EXCEPT ![t] = [pc |-> "stop", restart |-> FALSE]]
  /\ UNCHANGED <<monitor, monitor_process, monitor_status, alive, spawned>>

\* POST /api/restart: stop_monitor(), then start_monitor().
RestartRequest(t) ==
  /\ request[t].pc = "idle"
  /\ request' = [request EXCEPT ![t] = [pc |-> "stop", restart |-> TRUE]]
  /\ UNCHANGED <<monitor, monitor_process, monitor_status, alive, spawned>>

\* GET /api/status: a process that has exited is forgotten.
GetStatus(t) ==
  /\ request[t].pc = "idle"
  /\ IF monitor_process # NoProcess /\ monitor_process \notin alive
       THEN /\ monitor_status' = "stopped"
            /\ monitor_process' = NoProcess
       ELSE UNCHANGED <<monitor_status, monitor_process>>
  /\ UNCHANGED <<monitor, alive, spawned, request>>

\* start_monitor: if monitor_status == "running": return.
StartCheck(t) ==
  /\ request[t].pc = "start"
  /\ request' = [request EXCEPT ![t] =
                   IF monitor_status = "running"
                     THEN IdleRequest
                     ELSE [pc |-> "popen", restart |-> FALSE]]
  /\ UNCHANGED <<monitor, monitor_process, monitor_status, alive, spawned>>

\* start_monitor: monitor_process = subprocess.Popen(...).
StartPopen(t) ==
  /\ request[t].pc = "popen"
  /\ spawned < MaxSpawns
  /\ spawned' = spawned + 1
  /\ alive' = alive \cup {spawned + 1}
  /\ monitor_process' = spawned + 1
  /\ request' = [request EXCEPT ![t] = [pc |-> "started", restart |-> FALSE]]
  /\ UNCHANGED <<monitor, monitor_status>>

\* start_monitor: Popen raises; monitor_status = "error".
StartPopenFails(t) ==
  /\ request[t].pc = "popen"
  /\ monitor_status' = "error"
  /\ request' = [request EXCEPT ![t] = IdleRequest]
  /\ UNCHANGED <<monitor, monitor_process, alive, spawned>>

\* start_monitor: monitor_status = "running".
StartMark(t) ==
  /\ request[t].pc = "started"
  /\ monitor_status' = "running"
  /\ request' = [request EXCEPT ![t] = IdleRequest]
  /\ UNCHANGED <<monitor, monitor_process, alive, spawned>>

\* stop_monitor: if monitor_process is None: monitor_status = "stopped"; return.
StopCheck(t) ==
  /\ request[t].pc = "stop"
  /\ IF monitor_process = NoProcess
       THEN /\ monitor_status' = "stopped"
            /\ request' = [request EXCEPT ![t] = AfterStop(request[t])]
       ELSE /\ monitor_status' = monitor_status
            /\ request' = [request EXCEPT ![t].pc = "terminate"]
  /\ UNCHANGED <<monitor, monitor_process, alive, spawned>>

\* stop_monitor: monitor_process.terminate(), wait, kill: the process the
\* global names now is gone; with the global None by now, the AttributeError
\* is caught and the handler returns.
StopTerminate(t) ==
  /\ request[t].pc = "terminate"
  /\ IF monitor_process = NoProcess
       THEN /\ alive' = alive
            /\ request' = [request EXCEPT ![t] = AfterStop(request[t])]
       ELSE /\ alive' = alive \ {monitor_process}
            /\ request' = [request EXCEPT ![t].pc = "stopped"]
  /\ UNCHANGED <<monitor, monitor_process, monitor_status, spawned>>

\* stop_monitor: monitor_process = None; monitor_status = "stopped".
StopMark(t) ==
  /\ request[t].pc = "stopped"
  /\ monitor_process' = NoProcess
  /\ monitor_status' = "stopped"
  /\ request' = [request EXCEPT ![t] = AfterStop(request[t])]
  /\ UNCHANGED <<monitor, alive, spawned>>

\* A monitor subprocess exits by itself (sys.exit in main()).
ChildExits ==
  /\ \E p \in alive : alive' = alive \ {p}
  /\ UNCHANGED <<monitor, monitor_process, monitor_status, spawned, request>>

\* The control shell: the request handlers of the threaded web server, run
\* by two server threads, and the subprocesses they spawn.
NextShell ==
  \/ \E t \in Threads : StartRequest(t)
  \/ \E t \in Threads : StopRequest(t)
  \/ \E t \in Threads : RestartRequest(t)
  \/ \E t \in Threads : GetStatus(t)
  \/ \E t \in Threads : StartCheck(t)
  \/ \E t \in Threads : StartPopen(t)
  \/ \E t \in Threads : StartPopenFails(t)
  \/ \E t \in Threads : StartMark(t)
  \/ \E t \in Threads : StopCheck(t)
  \/ \E t \in Threads : StopTerminate(t)
  \/ \E t \in Threads : StopMark(t)
  \/ ChildExits

SpecShell == Init /\ [][NextShell]_vars

\* _signal_handler, for a signal delivered after the flag was cleared: the
\* flag stays False and the shutdown notification is sent again.
SignalAgain ==
  /\ pc # "off"
  /\ ~running
  /\ shutdown_sent' = Min(shutdown_sent + 1, MaxShutdownNotices)
  /\ UNCHANGED <<now, store, env, proc, pending, hist, cycle, sent_count, conn,
                 exit_status, cycle_sent, shell>>

\* start_monitoring: an exception reaches the outer except Exception (raised
\* by the sleep or the loop's own logging): finally: _cleanup(), which sends
\* 'Normal shutdown' if self.running and closes the session; return False.
LoopDies ==
  /\ pc = "loop"
  /\ shutdown_sent' = IF running
                        THEN Min(shutdown_sent + 1, MaxShutdownNotices)
                        ELSE shutdown_sent
  /\ monitor_sessions' = CloseSession(monitor_sessions, session_id, now)
  /\ pc' = "off"
  /\ exit_status' = 1
  /\ UNCHANGED <<now, processed_queries, running_procedures, env, session_id,
                 start_time, running, iteration, pending, hist, cycle, sent_count,
                 conn, cycle_sent, shell>>

\* One monitor process, two query ids, one-minute clock steps.
Next ==
  \/ TickMinute
  \/ StartupFails
  \/ StartupOk
  \/ Signal
  \/ BeginIteration(Unreliable)
  \/ IdleIterations(Unreliable)
  \/ HandleRunningThrottled(QueryIds)
  \/ HandleRunningNotify(QueryIds)
  \/ HandleProcessedSkip(QueryIds)
  \/ HandleNew(QueryIds)
  \/ EndIteration
  \/ EndIterationCleanup
  \/ Cleanup

Spec == Init /\ [][Next]_vars

\* Successive monitor processes on one store, one query id, clock steps of a
\* day and of a retention window.
NextRetention ==
  \/ TickDay
  \/ TickWeek
  \/ Construct
  \/ StartupFails
  \/ StartupOk
  \/ Signal
  \/ BeginIteration(Healthy)
  \/ IdleIterations(Healthy)
  \/ HandleRunningThrottled(OneQuery)
  \/ HandleRunningNotify(OneQuery)
  \/ HandleProcessedSkip(OneQuery)
  \/ HandleNew(OneQuery)
  \/ EndIteration
  \/ EndIterationCleanup
  \/ Cleanup

SpecRetention == Init /\ [][NextRetention]_vars

\* One monitor process, one query id, one-day clock steps, with sqlite3
\* errors in the store calls of the poll cycle.
NextFaults ==
  \/ TickDay
  \/ StartupFails
  \/ StartupOk
  \/ Signal
  \/ BeginIteration(Healthy)
  \/ IdleIterations(Healthy)
  \/ HandleRunningThrottled(OneQuery)
  \/ HandleRunningNotify(OneQuery)
  \/ HandleProcessedSkip(OneQuery)
  \/ HandleNew(OneQuery)
  \/ HandleRunningReadError(OneQuery)
  \/ HandleRunningWriteError(OneQuery)
  \/ HandleProcessedReadError(OneQuery)
  \/ HandleNewWriteError(OneQuery)
  \/ EndIteration
  \/ EndIterationCleanup
  \/ Cleanup

SpecFaults == Init /\ [][NextFaults]_vars

\* Successive monitor processes on one store, one query id, clock steps of a
\* day and of a retention window, with cleanup_old_records taken statement
\* by statement and interrupted by an error or by the death of the process.
NextSweep ==
  \/ TickDay
  \/ TickWeek
  \/ Construct
  \/ StartupFails
  \/ StartupOk
  \/ Signal
  \/ BeginIteration(Healthy)
  \/ IdleIterations(Healthy)
  \/ HandleRunningThrottled(OneQuery)
  \/ HandleRunningNotify(OneQuery)
  \/ HandleProcessedSkip(OneQuery)
  \/ HandleNew(OneQuery)
  \/ EndIteration
  \/ SweepBegin
  \/ SweepDeleteProcessed
  \/ SweepDeleteRunning
  \/ SweepDeleteSessions
  \/ SweepCommit
  \/ SweepError
  \/ SweepCrash
  \/ Cleanup

SpecSweep == Init /\ [][NextSweep]_vars

\* One monitor process, one query id, one-minute clock steps over several
\* throttle intervals.
NextCadence ==
  \/ TickCadence
  \/ StartupFails
  \/ StartupOk
  \/ Signal
  \/ BeginIteration(Healthy)
  \/ IdleIterations(Healthy)
  \/ HandleRunningThrottled(OneQuery)
  \/ HandleRunningNotify(OneQuery)
  \/ HandleProcessedSkip(OneQuery)
  \/ HandleNew(OneQuery)
  \/ EndIteration
  \/ EndIterationCleanup
  \/ Cleanup

SpecCadence == Init /\ [][NextCadence]_vars

\* One monitor process, one query id, half-hour clock steps over the first
\* hours of the process, with an upstream connection whose statements may
\* raise.
NextHeartbeat ==
  \/ TickHalfHour
  \/ StartupFails
  \/ StartupOk
  \/ Signal
  \/ BeginIteration(Unreliable)
  \/ IdleIterations(Unreliable)
  \/ HandleRunningThrottled(OneQuery)
  \/ HandleRunningNotify(OneQuery)
  \/ HandleProcessedSkip(OneQuery)
  \/ HandleNew(OneQuery)
  \/ EndIteration
  \/ EndIterationCleanup
  \/ Cleanup

SpecHeartbeat == Init /\ [][NextHeartbeat]_vars

\* One monitor process, one query id, one-minute clock steps, with repeated
\* signals and with the death of the loop on an exception.
NextShutdown ==
  \/ TickMinute
  \/ StartupFails
  \/ StartupOk
  \/ Signal
  \/ SignalAgain
  \/ LoopDies
  \/ BeginIteration(Healthy)
  \/ IdleIterations(Healthy)
  \/ HandleRunningThrottled(OneQuery)
  \/ HandleRunningNotify(OneQuery)
  \/ HandleProcessedSkip(OneQuery)
  \/ HandleNew(OneQuery)
  \/ EndIteration
  \/ EndIterationCleanup
  \/ Cleanup

SpecShutdown == Init /\ [][NextShutdown]_vars

\* ------------------------------------------------------------- properties

\* A loop step that examined one row of the poll result.
Examined == pending' = pending - 1

\* C1: a processed row is inserted, and a throttle row is inserted or
\* changed, only for the current session and only in the step in which the
\* delivery for that event returned success; a step whose delivery failed
\* writes no row for that event.
C1_StoreWriteOnlyAfterDelivery ==
  [][/\ \A r \in processed_queries' \ processed_queries :
          /\ Examined
          /\ r.session_id = session_id
          /\ handled'.query_id = r.query_id
          /\ handled'.outcome = "SENT"
     /\ \A r \in running_procedures' \ running_procedures :
          /\ Examined
          /\ r.session_id = session_id
          /\ handled'.query_id = r.query_id
          /\ handled'.outcome = "SENT"
     /\ (Examined /\ handled'.outcome = "FAILED") =>
          /\ processed_queries' = processed_queries
          /\ running_procedures' = running_procedures
    ]_vars

C1_Witness ==
  /\ handled.outcome = "SENT"
  /\ handled.status \in TerminalStatuses
  /\ IsQueryProcessed(processed_queries, handled.query_id, session_id)
  /\ \E q \in QueryIds : ~IsQueryProcessed(processed_queries, q, session_id)

\* C2: first_notified_at of a throttle row never changes once the row
\* exists; the first successful RUNNING notification of an event inserts the
\* row with first_notified_at = last_notified_at = now, and every later one
\* changes last_notified_at only.
C2_FirstNotifiedAtPreserved ==
  [][/\ \A r \in running_procedures, r2 \in running_procedures' :
          (r.query_id = r2.query_id /\ r.session_id = r2.session_id)
            => r2.first_notified_at = r.first_notified_at
     /\ (Examined /\ handled'.status = "RUNNING" /\ handled'.outcome = "SENT") =>
          LET old == ThrottleRows(running_procedures, handled'.query_id, session_id)
              new == ThrottleRows(running_procedures', handled'.query_id, session_id)
          IN /\ Cardinality(new) = 1
             /\ \A r2 \in new :
                  /\ r2.last_notified_at = now
                  /\ (old = {}) => r2.first_notified_at = now
                  /\ \A r \in old : r2 = [r EXCEPT !.last_notified_at = now]
    ]_vars

C2_Witness ==
  \E r \in running_procedures :
    /\ r.session_id = session_id
    /\ r.first_notified_at < r.last_notified_at
    /\ r.last_notified_at = now
    /\ handled = [query_id |-> r.query_id, status |-> "RUNNING", outcome |-> "SENT"]

\* C3: for every stored throttle state, time and interval the decision is
\* NOTIFY when no row of (event, session) exists, NOTIFY when
\* now - last_notified_at >= interval, SKIP otherwise, whatever the name and
\* first_notified_at are.
C3_ThrottleDecision ==
  \A q \in QueryIds, name \in ProcedureNames, k \in 0..MaxMinuteTicks,
     c \in ConfiguredThrottle :
    LET t == now + k * SecondsPerMinute
        interval == ThrottleMinutes(c) * SecondsPerMinute
        rows == ThrottleRows(running_procedures, q, session_id)
    IN ShouldNotifyRunningProcedure(running_procedures, q, name, session_id, t,
                                    ThrottleMinutes(c))
         = (rows = {} \/ \E r \in rows : t - r.last_notified_at >= interval)

C3_Witness ==
  /\ handled.status = "RUNNING"
  /\ handled.outcome = "SKIP"
  /\ \E r \in ThrottleRows(running_procedures, handled.query_id, session_id) :
       /\ r.first_notified_at < r.last_notified_at
       /\ now - r.last_notified_at = (throttle_minutes - 1) * SecondsPerMinute

\* C7: a failed delivery for a terminal event leaves is_processed false and
\* the process in its cycle; is_processed becomes true only by a successful
\* delivery; and whenever a terminal row is examined while is_processed is
\* false, delivery is attempted.
C7_FailedDeliveryRetried ==
  [][/\ (Examined /\ handled'.status \in TerminalStatuses /\ handled'.outcome = "FAILED") =>
          /\ ~IsQueryProcessed(processed_queries', handled'.query_id, session_id)
          /\ pc' = "cycle"
          /\ running' = running
     /\ \A q \in QueryIds :
          (/\ ~IsQueryProcessed(processed_queries, q, session_id)
           /\ IsQueryProcessed(processed_queries', q, session_id'))
            => (handled'.query_id = q /\ handled'.outcome = "SENT")
     /\ (/\ Examined
         /\ handled'.status \in TerminalStatuses
         /\ ~IsQueryProcessed(processed_queries, handled'.query_id, session_id))
            => handled'.outcome \in {"SENT", "FAILED"}
    ]_vars

C7_Witness ==
  /\ handled.outcome = "FAILED"
  /\ handled.status \in TerminalStatuses
  /\ ~IsQueryProcessed(processed_queries, handled.query_id, session_id)
  /\ pc = "cycle"
  /\ running

\* C4: a RUNNING row examined by the current process is notified exactly when
\* this process never delivered a RUNNING notification for that event, or at
\* least the throttle interval has passed since the last one it delivered.
C4_NotifyIffIntervalElapsed ==
  [][(/\ Examined
      /\ handled'.status = "RUNNING"
      /\ handled'.outcome \in {"SENT", "SKIP"}) =>
        LET q == handled'.query_id
        IN (handled'.outcome = "SENT")
             <=> \/ last_sent[q] = NoTime
                 \/ now - last_sent[q] >= throttle_minutes * SecondsPerMinute
    ]_vars

\* C5: a terminal event that the current process already notified with a
\* terminal status is not notified with a terminal status again by that
\* process.
C5_TerminalNotifiedAtMostOnce ==
  [][(/\ Examined
      /\ handled'.status \in TerminalStatuses
      /\ handled'.outcome = "SENT") =>
        ~\E d \in delivered :
            /\ d.query_id = handled'.query_id
            /\ d.status \in TerminalStatuses
    ]_vars

\* C6: a process that opens a session finds no processed row and no throttle
\* row under its session id; a row is skipped as already processed only if
\* the current process itself delivered a notification for that event through
\* the processed path, and a RUNNING row is throttled only if the current
\* process itself delivered a RUNNING notification for it; a terminal row
\* examined while the current session has no processed row for it is
\* attempted, whatever rows other sessions hold.
C6_DedupIsSessionScoped ==
  [][/\ (pc = "off" /\ pc' = "constructed") =>
          /\ \A r \in processed_queries' : r.session_id # session_id'
          /\ \A r \in running_procedures' : r.session_id # session_id'
     /\ (Examined /\ handled'.status # "RUNNING" /\ handled'.outcome = "SKIP") =>
          \E d \in delivered :
            d.query_id = handled'.query_id /\ d.status # "RUNNING"
     /\ (Examined /\ handled'.status = "RUNNING" /\ handled'.outcome = "SKIP") =>
          last_sent[handled'.query_id] # NoTime
     /\ (/\ Examined
         /\ handled'.status \in TerminalStatuses
         /\ ~IsQueryProcessed(processed_queries, handled'.query_id, session_id))
            => handled'.outcome \in {"SENT", "FAILED"}
    ]_vars

C6_Witness ==
  /\ session_id = 2
  /\ handled.status \in TerminalStatuses
  /\ handled.outcome = "SENT"
  /\ IsQueryProcessed(processed_queries, handled.query_id, 1)
  /\ IsQueryProcessed(processed_queries, handled.query_id, 2)
  /\ \E r \in running_procedures :
       r.query_id = handled.query_id /\ r.session_id = 1

\* A loop step that ran cleanup_old_records.
Swept == pc = "cycle" /\ pc' = "loop" /\ iteration = 0

RowsOf(table, sid) == {r \in table : r.session_id = sid}

\* C8: whenever a row with a terminal status is examined and no delivery
\* fails in that step, a notification with a terminal status for that event
\* has been delivered by the current process by the end of the step; a
\* terminal row is passed over only after such a delivery.
C8_TerminalStatusReported ==
  [][(/\ Examined
      /\ handled'.status \in TerminalStatuses
      /\ handled'.outcome # "FAILED") =>
        \E d \in delivered' :
          /\ d.query_id = handled'.query_id
          /\ d.status \in TerminalStatuses
    ]_vars

\* C9: a retention sweep keeps the session row of the process that runs it,
\* still ACTIVE, and every processed row and throttle row of that session,
\* whatever the age of the session.
C9_SweepKeepsActiveSession ==
  [][Swept =>
       /\ \E s \in monitor_sessions' :
            s.session_id = session_id /\ s.status = "ACTIVE"
       /\ RowsOf(processed_queries', session_id) = RowsOf(processed_queries, session_id)
       /\ RowsOf(running_procedures', session_id) = RowsOf(running_procedures, session_id)
    ]_vars

\* C10: a retention sweep at time now removes every closed session whose
\* start_time is before now - 7 days together with all processed rows and
\* throttle rows of that session, and leaves every session whose start_time
\* is at or after now - 7 days, and all rows of that session, unchanged.
C10_SweepByCutoff ==
  [][Swept =>
       LET cutoff == now - RetentionSeconds
       IN /\ \A s \in monitor_sessions :
               (s.status = "COMPLETED" /\ s.start_time < cutoff) =>
                 /\ \A s2 \in monitor_sessions' : s2.session_id # s.session_id
                 /\ RowsOf(processed_queries', s.session_id) = {}
                 /\ RowsOf(running_procedures', s.session_id) = {}
          /\ \A s \in monitor_sessions :
               s.start_time >= cutoff =>
                 /\ s \in monitor_sessions'
                 /\ RowsOf(processed_queries', s.session_id)
                      = RowsOf(processed_queries, s.session_id)
                 /\ RowsOf(running_procedures', s.session_id)
                      = RowsOf(running_procedures, s.session_id)
    ]_vars

C10_Witness ==
  /\ pc = "loop"
  /\ iteration = 0
  /\ \E w \in swept :
       /\ w.session.status = "COMPLETED"
       /\ w.session.start_time < now - RetentionSeconds
       /\ w.processed > 0
       /\ w.throttled > 0
       /\ RowsOf(processed_queries, w.session.session_id) = {}
       /\ RowsOf(running_procedures, w.session.session_id) = {}
  /\ \E s \in monitor_sessions :
       /\ s.session_id = session_id
       /\ s.start_time = now - RetentionSeconds
       /\ RowsOf(processed_queries, session_id) # {}
       /\ RowsOf(running_procedures, session_id) # {}

\* C11: every step of a retention sweep, its interruption by an error or by
\* the death of the process included, leaves each session the sweep selected
\* either with its session row and all its processed and throttle rows as
\* they were, or with none of them.
C11_SweepAtomicPerSession ==
  [][pc = "sweep" =>
       \A sid \in txn.old_sessions :
         \/ /\ RowsOf(monitor_sessions', sid) = RowsOf(monitor_sessions, sid)
            /\ RowsOf(processed_queries', sid) = RowsOf(processed_queries, sid)
            /\ RowsOf(running_procedures', sid) = RowsOf(running_procedures, sid)
         \/ /\ RowsOf(monitor_sessions', sid) = {}
            /\ RowsOf(processed_queries', sid) = {}
            /\ RowsOf(running_procedures', sid) = {}
    ]_vars

C11_Witness ==
  /\ txn.state = "rolled_back"
  /\ txn.step = 2
  /\ \E sid \in txn.old_sessions :
       /\ sid # session_id
       /\ RowsOf(monitor_sessions, sid) # {}
       /\ RowsOf(processed_queries, sid) # {}
       /\ RowsOf(running_procedures, sid) # {}

\* C12: for every event id, marking it processed twice in the current
\* session, the second time a day after the first, leaves exactly one
\* processed row for (event, session), the one the first call left, and the
\* event is processed after the first call and after the second.
C12_MarkProcessedIdempotent ==
  \A q \in QueryIds :
    LET once == MarkQueryProcessed(processed_queries, q, session_id, now)
        twice == MarkQueryProcessed(once, q, session_id, now + SecondsPerDay)
    IN /\ IsQueryProcessed(once, q, session_id)
       /\ IsQueryProcessed(twice, q, session_id)
       /\ Cardinality({r \in twice : r.query_id = q /\ r.session_id = session_id}) = 1
       /\ twice = once

C12_Witness ==
  /\ handled.outcome = "SENT"
  /\ handled.status \in TerminalStatuses
  /\ store_error = "read"
  /\ \E r \in processed_queries :
       /\ r.query_id = handled.query_id
       /\ r.session_id = session_id
       /\ r.processed_at < CurrentDate(now)
  /\ Cardinality({r \in processed_queries :
                    r.query_id = handled.query_id /\ r.session_id = session_id}) = 1

\* C13: a RUNNING notification delivered by the current process comes at
\* least the throttle interval after the previous RUNNING notification the
\* process delivered for the same event.
C13_NeverEarly ==
  [][(/\ Examined
      /\ handled'.status = "RUNNING"
      /\ handled'.outcome = "SENT"
      /\ last_sent[handled'.query_id] # NoTime) =>
        now - last_sent[handled'.query_id] >= throttle_minutes * SecondsPerMinute
    ]_vars

\* C14: with k RUNNING notifications of an event delivered so far in the
\* session (k >= 1), a poll of that event taken at least CHECK_INTERVAL after
\* the last of them is notified exactly when it is at or after
\* first_notified_at + k * interval.
C14_CadenceAnchoredAtFirst ==
  [][(/\ Examined
      /\ handled'.status = "RUNNING"
      /\ handled'.outcome \in {"SENT", "SKIP"}
      /\ sent_count[handled'.query_id] \in 1..(MaxCount - 1)
      /\ now - last_sent[handled'.query_id] >= SecondsPerMinute) =>
        \A r \in ThrottleRows(running_procedures, handled'.query_id, session_id) :
          (handled'.outcome = "SENT")
            <=> now >= r.first_notified_at
                         + sent_count[handled'.query_id] * throttle_minutes * SecondsPerMinute
    ]_vars

\* C15: a loop step in which the store read raised an error attempts
\* delivery of the examined row; it never skips it.
C15_ReadErrorFailsOpen ==
  [][(Examined /\ store_error' = "read") =>
       handled'.outcome \in {"SENT", "FAILED"}
    ]_vars

\* C16: a loop step in which the store write raised an error after a
\* successful delivery does not count the event in new_procedures_count.
C16_WriteErrorNotCounted ==
  [][(Examined /\ store_error' = "write") =>
       new_procedures_count' = new_procedures_count
    ]_vars

\* C17: a row with an in-progress status (RUNNING or QUEUED) never causes a
\* processed row to be written, and its successful delivery leaves the
\* throttle row of (event, session) with last_notified_at = now; a processed
\* row is written only in a step that examined a row with a terminal status.
C17_InProgressUsesThrottlePath ==
  [][/\ (Examined /\ handled'.status \in InProgressStatuses) =>
          /\ processed_queries' = processed_queries
          /\ handled'.outcome = "SENT" =>
               \E r \in ThrottleRows(running_procedures', handled'.query_id, session_id) :
                 r.last_notified_at = now
     /\ processed_queries' # processed_queries =>
          \/ Swept
          \/ Examined /\ handled'.status \in TerminalStatuses
    ]_vars

\* C18: when the process leaves the poll loop after a shutdown signal, the
\* row of its session is in the store with status COMPLETED and end_time set.
C18_SignalClosesSession ==
  [][(pc = "loop" /\ pc' = "off" /\ ~running) =>
       \E s \in monitor_sessions' :
         /\ s.session_id = session_id
         /\ s.status = "COMPLETED"
         /\ s.end_time # NoTime
    ]_vars

\* C19: the number of ACTIVE session rows is the number of running monitor
\* processes (one while the process is up, none after it exited), and the
\* session of a running process is in the store with status ACTIVE.
C19_OneActiveSessionPerProcess ==
  /\ Cardinality({s \in monitor_sessions : s.status = "ACTIVE"})
       = (IF pc = "off" THEN 0 ELSE 1)
  /\ pc # "off" =>
       \E s \in monitor_sessions : s.session_id = session_id /\ s.status = "ACTIVE"

\* C20: a COMPLETED session row never changes again except by being deleted;
\* a starting process leaves every existing session row as it is and inserts
\* one new ACTIVE row whose session_id is greater than every id in the store
\* and every id of a session removed by a sweep.
C20_SessionsOnlyMoveForward ==
  [][/\ \A s \in monitor_sessions, s2 \in monitor_sessions' :
          (s2.session_id = s.session_id /\ s.status = "COMPLETED") => s2 = s
     /\ (pc = "off" /\ pc' = "constructed") =>
          /\ \A s \in monitor_sessions : s.session_id < session_id'
          /\ \A w \in swept : w.session.session_id < session_id'
          /\ monitor_sessions' = monitor_sessions \cup {SessionRow(session_id', now)}
          /\ SessionRow(session_id', now) \notin monitor_sessions
    ]_vars

C20_Witness ==
  /\ pc = "constructed"
  /\ session_id = 2
  /\ \E w \in swept : w.session.session_id = 1
  /\ monitor_sessions = {SessionRow(2, now)}

\* The row a successful delivery of the examined event leaves in the store.
Recorded(event) ==
  IF IsRunningStatus(event.status)
    THEN \E r \in ThrottleRows(running_procedures', event.query_id, session_id) :
            r.last_notified_at = now
    ELSE IsQueryProcessed(processed_queries', event.query_id, session_id)

\* C21: shutdown is cooperative.  A signal only clears the running flag: the
\* position in the loop, the rows still to examine and the store stay as they
\* are.  A cycle with rows left to examine is never left, with or without the
\* flag; each row delivered after the signal has its store row written in the
\* same step; the session is closed only from the loop test, with no row of
\* the poll result left; and no cycle begins once the flag is cleared.
C21_CooperativeShutdown ==
  [][/\ (running /\ ~running') =>
          /\ pc' = pc
          /\ pending' = pending
          /\ store' = store
          /\ handled' = handled
          /\ exit_status' = exit_status
     /\ (pc = "cycle" /\ pending > 0) =>
          /\ pc' = "cycle"
          /\ monitor_sessions' = monitor_sessions
     /\ (~running /\ Examined /\ handled'.outcome = "SENT") => Recorded(handled')
     /\ (pc # "off" /\ pc' = "off" /\ pc # "constructed") =>
          /\ pc = "loop"
          /\ pending = 0
          /\ ~running
     /\ ~running => ~(pc = "loop" /\ pc' = "cycle")]_vars

\* The signal arrived during a cycle, and the cycle went on to examine its
\* last row, delivered it and recorded it.
C21_Witness ==
  /\ ~running
  /\ pc = "cycle"
  /\ pending = 0
  /\ handled.outcome = "SENT"
  /\ ~IsRunningStatus(handled.status)
  /\ IsQueryProcessed(processed_queries, handled.query_id, session_id)
  /\ cycle_sent # {}

\* C22: an iteration whose query raised has an empty poll result.  It
\* examines no row, attempts no delivery and counts nothing, the three
\* tables are as they were when it began, and it ends at the loop test with
\* the process still running.
C22_FailedQueryIsEmptyResult ==
  [][/\ (pc' = "cycle" /\ upstream'.query = "failed") =>
          /\ pending' = 0
          /\ handled' = NoEvent
          /\ cycle_sent' = {}
          /\ new_procedures_count' = 0
          /\ store' = store
          /\ delivered' = delivered
     /\ (pc = "cycle" /\ upstream.query = "failed" /\ pc' # "cycle") =>
          /\ pc' = "loop"
          /\ store' = store
          /\ delivered' = delivered
          /\ exit_status' = NoExit]_vars

\* The query of the current iteration raised, in a session that has rows in
\* both notification tables.
C22_Witness ==
  /\ pc = "cycle"
  /\ upstream.query = "failed"
  /\ pending = 0
  /\ processed_queries # {}
  /\ running_procedures # {}

\* C23: a failed startup check ends the process before any poll cycle, with
\* a non-zero exit status.  The process leaves the startup checks either to
\* the loop, with no exit status, or to its end with status 1, having polled,
\* delivered and stored nothing; a cycle begins only from the loop; and a
\* process that ended with a non-zero status has delivered nothing.
C23_StartupFailureIsFatal ==
  [][/\ (pc = "constructed" /\ pc' # "constructed") =>
          \/ /\ pc' = "loop"
             /\ exit_status' = NoExit
          \/ /\ pc' = "off"
             /\ exit_status' = 1
             /\ store' = store
             /\ iteration' = 0
             /\ pending' = 0
             /\ delivered' = {}
             /\ upstream' = NoUpstream
     /\ pc' = "cycle" => (pc \in {"loop", "cycle"} /\ exit_status' = NoExit)
     /\ (exit_status' # NoExit /\ exit_status' # 0) =>
          (pc' = "off" /\ delivered' = {} /\ cycle_sent' = {})]_vars

\* The process ended at the startup checks with status 1.
C23_Witness ==
  /\ pc = "off"
  /\ exit_status = 1
  /\ iteration = 0
  /\ delivered = {}
  /\ processed_queries = {}
  /\ running_procedures = {}

\* C24: the throttle table and the processed table are independent.  A row
\* with a terminal status is skipped exactly when (id, session) is in the
\* processed table, whatever the throttle table holds for it, and handling it
\* leaves the throttle table as it was.
C24_TerminalIgnoresThrottleRow ==
  [][(Examined /\ handled'.status \in TerminalStatuses) =>
        /\ running_procedures' = running_procedures
        /\ handled'.outcome = "SKIP" <=>
             IsQueryProcessed(processed_queries, handled'.query_id, session_id)]_vars

\* A terminal status was delivered for an event whose throttle row was
\* written at this very time, and the throttle row is still there.
C24_Witness ==
  /\ handled.status \in TerminalStatuses
  /\ handled.outcome = "SENT"
  /\ IsQueryProcessed(processed_queries, handled.query_id, session_id)
  /\ \E r \in ThrottleRows(running_procedures, handled.query_id, session_id) :
       r.last_notified_at = now

\* C25: a skipped row has no effect.  The step that skips a row, throttled or
\* already processed, attempts no delivery, counts nothing and leaves every
\* row of the three tables as it was.
C25_SkipHasNoEffect ==
  [][(Examined /\ handled'.outcome = "SKIP") =>
        /\ store' = store
        /\ delivered' = delivered
        /\ cycle_sent' = cycle_sent
        /\ last_sent' = last_sent
        /\ sent_count' = sent_count
        /\ new_procedures_count' = new_procedures_count]_vars

\* A RUNNING row was throttled a minute after its notification, and the
\* throttle row still carries the time of that notification.
C25_Witness ==
  /\ handled.outcome = "SKIP"
  /\ IsRunningStatus(handled.status)
  /\ \E r \in ThrottleRows(running_procedures, handled.query_id, session_id) :
       /\ r.last_notified_at < now
       /\ r.last_notified_at = last_sent[handled.query_id]

\* C26: the stored last_notified_at of an (event id, session) never
\* decreases.  In every step, a throttle row of the next state is not older
\* than the row of the same key in the current state, nor older than the last
\* RUNNING notification the process delivered for that event.
C26_LastNotifiedMonotone ==
  [][\A r2 \in running_procedures' :
       /\ \A r \in running_procedures :
            (r.query_id = r2.query_id /\ r.session_id = r2.session_id) =>
              r2.last_notified_at >= r.last_notified_at
       /\ r2.session_id = session_id' =>
            r2.last_notified_at >= last_sent[r2.query_id]]_vars

\* A throttle row that was updated after its insertion and has been kept
\* since: the event was notified twice, and the clock has moved on.
C26_Witness ==
  \E r \in running_procedures :
    /\ r.session_id = session_id
    /\ r.first_notified_at < r.last_notified_at
    /\ r.last_notified_at = last_sent[r.query_id]
    /\ r.last_notified_at < now
    /\ sent_count[r.query_id] >= 2

\* C27: the keep-alive cadence.  The poll that begins an iteration sends a
\* probe exactly when the process is at least an hour old and either no probe
\* has succeeded yet or the last successful one is at least an hour old.  The
\* time of the last successful probe changes only to the current time, by a
\* probe that succeeded, never in the first hour, and never less than an
\* hour after the previous successful probe.
C27_KeepAliveCadence ==
  [][/\ (pc = "loop" /\ pc' = "cycle") =>
          (upstream'.probe # "none" <=>
             /\ now - start_time >= 60 * SecondsPerMinute
             /\ (last_heartbeat = NoTime
                   \/ now - last_heartbeat >= 60 * SecondsPerMinute))
     /\ (pc = "loop" /\ pc' = "cycle" /\ upstream'.probe = "ok") =>
          last_heartbeat' = now
     /\ last_heartbeat' # last_heartbeat =>
          /\ last_heartbeat' = now
          /\ pc = "loop"
          /\ pc' = "cycle" => upstream'.probe = "ok"
          /\ now - start_time >= 60 * SecondsPerMinute
          /\ last_heartbeat # NoTime =>
               last_heartbeat' - last_heartbeat >= 60 * SecondsPerMinute]_vars

\* Half an hour after a successful probe an iteration polls without a probe.
C27_Witness ==
  /\ pc = "cycle"
  /\ upstream.probe = "none"
  /\ last_heartbeat # NoTime
  /\ now - last_heartbeat = 30 * SecondsPerMinute
  /\ now - start_time >= 60 * SecondsPerMinute

\* C28: a failed keep-alive probe is not fatal and does not block the cycle.
\* The poll whose probe failed executes its query all the same, changes no
\* table and leaves last_heartbeat and the running flag as they were; the
\* iteration then handles its rows and ends at the loop test, and the
\* process has not exited.
C28_ProbeFailureNotFatal ==
  [][/\ (pc = "loop" /\ pc' = "cycle" /\ upstream'.probe = "failed") =>
          /\ upstream'.query \in {"ok", "failed"}
          /\ store' = store
          /\ last_heartbeat' = last_heartbeat
          /\ running' = running
     /\ (pc = "cycle" /\ upstream.probe = "failed") =>
          /\ pc' \in {"cycle", "loop"}
          /\ exit_status' = NoExit
          /\ upstream.query = "ok" => pending' \in {pending, pending - 1}]_vars

\* The probe of the current iteration failed, and the iteration fetched a
\* row, delivered it and recorded it.
C28_Witness ==
  /\ pc = "cycle"
  /\ upstream = [probe |-> "failed", query |-> "ok"]
  /\ last_heartbeat = NoTime
  /\ handled.outcome = "SENT"
  /\ handled.status \in TerminalStatuses
  /\ IsQueryProcessed(processed_queries, handled.query_id, session_id)

\* C29: a retention sweep that fails with a storage error does not end the
\* poll loop.  The step in which the error is caught takes the process back
\* to the loop test with the running flag, the exit status and the
\* notification history as they were, and no step of a sweep that does not
\* commit changes a row of any table, the rows of the current session
\* included.
C29_FailedSweepNotFatal ==
  [][/\ (pc = "sweep" /\ store_error' = "write") =>
          /\ txn'.state = "rolled_back"
          /\ pc' = "loop"
          /\ running' = running
          /\ exit_status' = NoExit
          /\ iteration' = iteration
          /\ delivered' = delivered
          /\ last_sent' = last_sent
     /\ ((pc = "sweep" \/ pc' = "sweep") /\ txn'.state # "committed") =>
          store' = store]_vars

\* A sweep that had selected the session of the running process failed after
\* its first DELETE; the process is back at the loop test, still running, and
\* its session, processed and throttle rows are in the store.
C29_Witness ==
  /\ pc = "loop"
  /\ running
  /\ store_error = "write"
  /\ txn.state = "rolled_back"
  /\ txn.step = 1
  /\ session_id \in txn.old_sessions
  /\ RowsOf(monitor_sessions, session_id) # {}
  /\ RowsOf(processed_queries, session_id) # {}
  /\ RowsOf(running_procedures, session_id) # {}

\* The (id, status) of the row examined by this step.
ExaminedEvent == [query_id |-> handled'.query_id, status |-> handled'.status]

C31_AtMostOneMonitorAlive == Cardinality(alive) <= 1

\* C32 as stated, in its consequence: with a zero setting, not every poll
\* re-notifies a running event: a RUNNING row polled again one poll interval
\* after its notification is throttled.
C32_ClampPreventsRenotifyEveryPoll ==
  [][(/\ Examined
      /\ IsRunningStatus(handled'.status)
      /\ throttle_minutes = ThrottleMinutes(0)
      /\ last_sent[handled'.query_id] # NoTime
      /\ now - last_sent[handled'.query_id] = CheckInterval(0))
       => handled'.outcome = "SKIP"]_vars

\* C32, amended: for every configured integer the effective throttle
\* interval is the configured value or 1 minute, whichever is larger, and
\* the effective poll interval the configured value or 60 seconds, whichever
\* is larger; the throttle interval of the process is at least one minute,
\* and a RUNNING event is never notified again less than a minute after its
\* last notification.
C32_EffectiveIntervals ==
  [][/\ \A c \in ConfiguredThrottle :
          /\ ThrottleMinutes(c) >= 1
          /\ ThrottleMinutes(c) >= c
          /\ ThrottleMinutes(c) \in {1, c}
     /\ \A k \in ConfiguredCheckInterval :
          /\ CheckInterval(k) >= 60
          /\ CheckInterval(k) >= k
          /\ CheckInterval(k) \in {60, k}
     /\ throttle_minutes >= 1
     /\ (/\ Examined
         /\ IsRunningStatus(handled'.status)
         /\ handled'.outcome = "SENT"
         /\ last_sent[handled'.query_id] # NoTime)
          => now - last_sent[handled'.query_id] >= SecondsPerMinute]_vars

\* With the throttle interval a zero setting gives, a RUNNING event was
\* notified a second time exactly one minute after the first.
C32_Witness ==
  /\ throttle_minutes = ThrottleMinutes(0)
  /\ handled.outcome = "SENT"
  /\ IsRunningStatus(handled.status)
  /\ sent_count[handled.query_id] = 2
  /\ \E r \in ThrottleRows(running_procedures, handled.query_id, session_id) :
       /\ r.last_notified_at = now
       /\ r.first_notified_at = now - CheckInterval(0)

\* The classification of the row examined by this step, from the store as it
\* is before the step: a delivery is due.
Eligible(event) ==
  IF IsRunningStatus(event.status)
    THEN ShouldNotifyRunningProcedure(running_procedures, event.query_id,
           ProcedureName(event.query_id), session_id, now, throttle_minutes)
    ELSE ~IsQueryProcessed(processed_queries, event.query_id, session_id)

\* C33: the rows of one poll result are handled independently.  A step of a
\* cycle takes at most one row off the poll result, whatever its outcome; and
\* after a failed delivery with rows left, the process stays in the cycle,
\* the next row is delivered exactly when it is eligible, and it is recorded
\* when its delivery succeeds.
C33_FailureDoesNotStopCycle ==
  [][/\ (pc = "cycle" /\ pc' = "cycle") => pending' \in {pending, pending - 1}
     /\ (pc = "cycle" /\ handled.outcome = "FAILED" /\ pending > 0) =>
          /\ pc' = "cycle"
          /\ Examined =>
               /\ handled'.outcome # "SKIP" <=> Eligible(handled')
               /\ handled'.outcome = "SENT" => Recorded(handled')]_vars

\* The delivery of a terminal row failed, nothing was recorded for it, and a
\* row of the same poll result is left to examine.
C33_Witness ==
  /\ pc = "cycle"
  /\ handled.outcome = "FAILED"
  /\ handled.status \in TerminalStatuses
  /\ pending > 0
  /\ new_procedures_count = 0
  /\ ~IsQueryProcessed(processed_queries, handled.query_id, session_id)

\* C34: referential integrity of the store: every processed row and every
\* throttle row carries the session_id of a row of monitor_sessions.
C34_ReferentialIntegrity ==
  /\ \A r \in processed_queries : RowsOf(monitor_sessions, r.session_id) # {}
  /\ \A r \in running_procedures : RowsOf(monitor_sessions, r.session_id) # {}

\* C35: the shutdown notification is the last notification of a run: once
\* it has been sent, no step attempts the delivery of an event.
C35_ShutdownNoticeIsLast ==
  [][(shutdown_sent > 0 /\ Examined) => handled'.outcome = "SKIP"]_vars

\* C36: at most one shutdown notification is sent per process run, on every
\* exit path.
C36_AtMostOneShutdownNotice == shutdown_sent <= 1

\* C37: every return path of start_monitoring closes the session: whenever
\* the process exits (startup failure, end of the loop after a signal, death
\* of the loop on an exception), the row of its session has status COMPLETED
\* and end_time set, and no row of the store is left ACTIVE for it.
C37_EveryReturnPathClosesSession ==
  [][(pc # "off" /\ pc' = "off") =>
       /\ RowsOf(monitor_sessions', session_id) # {}
       /\ \A s \in RowsOf(monitor_sessions', session_id) :
            s.status = "COMPLETED" /\ s.end_time # NoTime
    ]_vars

\* C38: every throttle row has first_notified_at <= last_notified_at, and for
\* the rows of the running process's session the two are equal exactly when
\* the event has been notified once in the session.
C38_FirstNotLaterThanLast ==
  \A r \in running_procedures :
    /\ r.first_notified_at <= r.last_notified_at
    /\ (pc # "off" /\ r.session_id = session_id) =>
         ((r.first_notified_at = r.last_notified_at) <=> (sent_count[r.query_id] = 1))

\* C39: a step of a poll cycle of a process with session S leaves the session
\* rows as they are, and leaves every processed row and every throttle row of
\* another session as it is: the rows it inserts or updates carry session S.
C39_CycleWritesOwnSessionOnly ==
  [][Examined =>
       /\ monitor_sessions' = monitor_sessions
       /\ processed_queries' \ RowsOf(processed_queries', session_id)
            = processed_queries \ RowsOf(processed_queries, session_id)
       /\ running_procedures' \ RowsOf(running_procedures', session_id)
            = running_procedures \ RowsOf(running_procedures, session_id)
    ]_vars

\* A delivery is recorded while the store holds a throttle row of the same
\* event written by an earlier session.
C39_Witness ==
  /\ pc = "cycle"
  /\ handled # NoEvent
  /\ handled.status = "RUNNING"
  /\ handled.outcome = "SENT"
  /\ RowsOf(running_procedures, session_id) # {}
  /\ \E r \in running_procedures :
       r.session_id # session_id /\ r.query_id = handled.query_id

====
